---- MODULE Spec2Model ----
(***************************************************************************)
(* Model of the two Traveling Salesman programs of the repository:        *)
(*   source/CheapestTour.c   getOptimalTour   (exhaustive search driven   *)
(*                           by the Steinhaus-Johnson-Trotter step)       *)
(*   source/HeuristicTour.c  getHeuristicTour (Prim, depth-first walk,    *)
(*                           shortcutting of the walk)                    *)
(* Both programs are run, one after the other, on the same distance       *)
(* matrix.  C arrays are functions over 0..size-1.                        *)
(***************************************************************************)
EXTENDS Integers, Sequences, FiniteSets

VARIABLES
  nr_cities,          \* argv[1]
  cities,             \* the distance matrix, cities[i][j]
  pc,                 \* "optimal", "prim", "shortcut", "done", or, once a
                      \* value was read that the program never assigned,
                      \* "ub_optimal", "ub_prim"
  i,                  \* loop counter of the running loop (both programs)
  nr_perm,            \* getOptimalTour: number of permutations to check
  p,                  \* getOptimalTour: the current permutation
  d,                  \* getOptimalTour: the direction of each integer
  largestMobile,      \* getOptimalTour: value found by the last scan, 0 if none
  largestMobileIndex, \* getOptimalTour: index set by the last successful scan
  optimalTour,        \* struct result of getOptimalTour: [cost, tour]
  evaluated,          \* history: the permutations whose cost was calculated
  v_list,             \* getHeuristicTour: v_head..v_tail, the visited vertices
  mst,                \* getHeuristicTour: adjacency matrix of the tree
  p_list,             \* getHeuristicTour: p_head..p_tail, the dfs trail
  kept,               \* getHeuristicTour: entries written by the shortcut loop
  heuristicTour       \* struct result of getHeuristicTour: [cost, tour]

vars == << nr_cities, cities, pc, i, nr_perm, p, d, largestMobile,
           largestMobileIndex, optimalTour, evaluated, v_list, mst, p_list,
           kept, heuristicTour >>

(***************************************************************************)
(* Program constants                                                       *)
(***************************************************************************)
LEFT == -1
RIGHT == 1
INFINITE == 0
UNVISITED == 0
VISITED == 1
UNCONNECTED == 0
CONNECTED == 1

(***************************************************************************)
(* Bounds of the model                                                     *)
(***************************************************************************)
\* Spec: every symmetric matrix over MaxN cities with weights 0..MaxW
MaxN == 3
MaxW == 3
\* Spec: cities placed on a line, MaxPts cities at positions 0..MaxCoord
MaxPts == 4
MaxCoord == 3
\* SpecEnum: number of cities whose permutations are enumerated
MaxPermN == 6
\* SpecSparse: SparseN cities, weights 0..SparseW, at most MaxRoads roads
SparseN == 5
SparseW == 2
MaxRoads == 5

(***************************************************************************)
(* Values of memory that was allocated and never assigned.  An int cell   *)
(* of a malloc'ed block holds an arbitrary value: a city index, or Junk,  *)
(* which stands for every value outside 0..n-1.  Unset marks a cell or a  *)
(* local variable that has not been assigned yet.                         *)
(***************************************************************************)
Junk == -1
Unset == -2
Indeterminate(n) == (0 .. n - 1) \cup {Junk}

Cities(n) == 0 .. n - 1

(***************************************************************************)
(* Inputs: what loadCitiesFromFile returns for a well-formed file         *)
(***************************************************************************)
Pairs(n) == { pr \in Cities(n) \X Cities(n) : pr[1] < pr[2] }

MatrixOf(n, w) ==
  [a \in Cities(n) |->
     [b \in Cities(n) |->
        IF a = b THEN 0 ELSE IF a < b THEN w[<<a, b>>] ELSE w[<<b, a>>]]]

\* every symmetric matrix with a zero diagonal and weights 0..maxw
SymmetricInputs(maxn, maxw) ==
  UNION { { [n |-> n, cities |-> MatrixOf(n, w)] :
              w \in [Pairs(n) -> 0 .. maxw] } : n \in 1 .. maxn }

Abs(x) == IF x < 0 THEN -x ELSE x

\* cities at integer positions on a line: d(a,b) = |x[a] - x[b]|
LineInputs(maxn, maxc) ==
  UNION { { [n |-> n,
             cities |-> [a \in Cities(n) |->
                           [b \in Cities(n) |-> Abs(x[a] - x[b])]]] :
              x \in [Cities(n) -> 0 .. maxc] } : n \in 1 .. maxn }

\* one matrix per number of cities: city a at position a of a line
EnumInputs(maxn) ==
  { [n |-> n,
     cities |-> [a \in Cities(n) |-> [b \in Cities(n) |-> Abs(a - b)]]] :
      n \in 1 .. maxn }

Roads(n, c) == { pr \in Pairs(n) : c[pr[1]][pr[2]] # INFINITE }

\* symmetric matrices in which at most maxr pairs of cities have a road,
\* the roads weighing 1..maxw
SparseInputs(maxn, maxw, maxr) ==
  UNION { UNION { { [n |-> n,
                     cities |-> MatrixOf(n, [pr \in Pairs(n) |->
                                   IF pr \in R THEN w[pr] ELSE INFINITE])] :
                      w \in [R -> 1 .. maxw] } :
                  R \in { Q \in SUBSET Pairs(n) : Cardinality(Q) <= maxr } } :
          n \in 1 .. maxn }

(***************************************************************************)
(* CheapestTour.c                                                          *)
(***************************************************************************)
RECURSIVE factorial(_)
factorial(n) == IF n < 2 THEN 1 ELSE n * factorial(n - 1)

\* the count without the halving
NrPermAll(n) == factorial(n - 1)

\* nr_perm = factorial(nr_cities-1) / 2
NrPerm(n) == factorial(n - 1) \div 2

RECURSIVE SumTo(_, _)
\* sum of f[0] .. f[k-1]
SumTo(f, k) == IF k <= 0 THEN 0 ELSE f[k - 1] + SumTo(f, k - 1)

\* the cost of the current tour: the inner loop over j with next_city
TourCost(n, c, q) ==
  SumTo([j \in Cities(n) |->
           c[q[j]][q[IF j < n - 1 THEN j + 1 ELSE 0]]], n)

\* new shortest tour?
NewShortest(cost, res) == cost < res.cost \/ res.cost = INFINITE

\* the update of res by one permutation
Record(n, cost, q, res) ==
  IF NewShortest(cost, res)
    THEN [cost |-> cost,
          tour |-> [k \in 0 .. n |-> IF k < n THEN q[k] ELSE res.tour[k]]]
    ELSE res

\* the test of one position j in the scan for the largest mobile integer
IsCandidate(n, q, dir, j, lm) ==
  /\ ~(j = 1 /\ dir[j] = LEFT)
  /\ ~(j = n - 1 /\ dir[j] = RIGHT)
  /\ q[j] > q[j + dir[j]]
  /\ q[j] > lm

RECURSIVE Scan(_, _, _, _, _)
\* the scan loop from position j on; st = [lm, idx]
Scan(n, q, dir, j, st) ==
  IF j >= n THEN st
  ELSE Scan(n, q, dir, j + 1,
            IF IsCandidate(n, q, dir, j, st.lm)
              THEN [lm |-> q[j], idx |-> j]
              ELSE st)

Swap(f, a, b) == [f EXCEPT ![a] = f[b], ![b] = f[a]]

\* swap the direction of all integers larger than the largest mobile
Flip(n, q, dir, lm) ==
  [j \in Cities(n) |->
     IF j >= 1 /\ q[j] > lm
       THEN (IF dir[j] = LEFT THEN RIGHT ELSE LEFT)
       ELSE dir[j]]

\* one pass of the loop over the permutations, lines 126-170
OptIter ==
  /\ pc = "optimal"
  /\ i < nr_perm
  /\ LET cost == TourCost(nr_cities, cities, p)
         st   == Scan(nr_cities, p, d, 1,
                      [lm |-> 0, idx |-> largestMobileIndex])
         \* the neighbour of the largest mobile integer in its direction
         nb   == IF st.idx = Unset THEN Unset ELSE st.idx + d[st.idx]
     IN  /\ optimalTour' = Record(nr_cities, cost, p, optimalTour)
         /\ evaluated' = Append(evaluated, p)
         /\ largestMobile' = st.lm
         /\ largestMobileIndex' = st.idx
         /\ IF nb \in Cities(nr_cities)
              THEN /\ p' = Swap(p, st.idx, nb)
                   /\ d' = Flip(nr_cities, p', Swap(d, st.idx, nb), st.lm)
                   /\ i' = i + 1
                   /\ pc' = pc
              \* largestMobileIndex is read before any assignment, or the
              \* swap reaches outside p[] and d[]
              ELSE /\ pc' = "ub_optimal"
                   /\ UNCHANGED << p, d, i >>
  /\ UNCHANGED << nr_cities, cities, nr_perm, v_list, mst, p_list, kept,
                  heuristicTour >>

UnsetCells(n, tour) == { k \in Cities(n) : tour[k] = Unset }

\* the loop is over: res.tour[res.tour_size-1] = res.tour[0], return.
\* The cells of res.tour that no permutation was copied to hold whatever
\* malloc left there.
OptReturn ==
  /\ pc = "optimal"
  /\ i >= nr_perm
  /\ \E g \in [UnsetCells(nr_cities, optimalTour.tour) ->
                 Indeterminate(nr_cities)] :
       LET cell(k) == IF optimalTour.tour[k] = Unset
                        THEN g[k] ELSE optimalTour.tour[k]
       IN  optimalTour' =
             [optimalTour EXCEPT
                !.tour = [k \in 0 .. nr_cities |->
                            IF k = nr_cities THEN cell(0) ELSE cell(k)]]
  /\ pc' = "prim"
  /\ i' = 1
  /\ UNCHANGED << nr_cities, cities, nr_perm, p, d, largestMobile,
                  largestMobileIndex, evaluated, v_list, mst, p_list, kept,
                  heuristicTour >>

(***************************************************************************)
(* HeuristicTour.c                                                         *)
(***************************************************************************)
InList(vl, c) == \E k \in 1 .. Len(vl) : vl[k] = c

\* the test with the comparison turned round
CheaperMax(w, e) == e.weight = INFINITE \/ w > e.weight

\* e.weight == INFINITE || cities[vp1->city][j] < e.weight
Cheaper(w, e) == e.weight = INFINITE \/ w < e.weight

\* the body of the loop over j for the tree vertex v1
Consider(c, vl, v1, j, e) ==
  IF c[v1][j] = INFINITE THEN e
  ELSE IF ~InList(vl, j) /\ Cheaper(c[v1][j], e)
    THEN [city1 |-> v1, city2 |-> j, weight |-> c[v1][j]]
    ELSE e

RECURSIVE ScanRow(_, _, _, _, _, _)
ScanRow(n, c, vl, v1, j, e) ==
  IF j >= n THEN e
  ELSE ScanRow(n, c, vl, v1, j + 1, Consider(c, vl, v1, j, e))

RECURSIVE ScanList(_, _, _, _, _)
\* the loop over vp1, from the k-th vertex of the list on
ScanList(n, c, vl, k, e) ==
  IF k > Len(vl) THEN e
  ELSE ScanList(n, c, vl, k + 1, ScanRow(n, c, vl, vl[k], 0, e))

\* the update without its second assignment
AddEdgeOneWay(g, e) ==
  [g EXCEPT ![e.city1] = [g[e.city1] EXCEPT ![e.city2] = CONNECTED]]

\* mst[e.city1][e.city2] = CONNECTED; mst[e.city2][e.city1] = CONNECTED
AddEdge(g, e) ==
  LET g1 == [g EXCEPT ![e.city1] = [g[e.city1] EXCEPT ![e.city2] = CONNECTED]]
  IN  [g1 EXCEPT ![e.city2] = [g1[e.city2] EXCEPT ![e.city1] = CONNECTED]]

\* one pass of the loop "for all remaining vertices", lines 191-235
PrimStep ==
  /\ pc = "prim"
  /\ i < nr_cities
  /\ LET e == ScanList(nr_cities, cities, v_list, 1,
                       [city1 |-> Unset, city2 |-> Unset,
                        weight |-> INFINITE])
     IN  IF e.city1 # Unset
           THEN /\ v_list' = Append(v_list, e.city2)
                /\ mst' = AddEdge(mst, e)
                /\ i' = i + 1
                /\ pc' = pc
           \* no vertex was found: v_new->city, e.city1 and e.city2 are
           \* read without having been assigned
           ELSE /\ pc' = "ub_prim"
                /\ UNCHANGED << v_list, mst, i >>
  /\ UNCHANGED << nr_cities, cities, nr_perm, p, d, largestMobile,
                  largestMobileIndex, optimalTour, evaluated, p_list, kept,
                  heuristicTour >>

RECURSIVE dfs(_, _, _, _)
RECURSIVE DfsLoop(_, _, _, _, _)
\* dfs(node, ...); st = [visited, trail]
dfs(n, g, node, st) ==
  DfsLoop(n, g, node, 0,
          [visited |-> [st.visited EXCEPT ![node] = VISITED],
           trail |-> Append(st.trail, node)])

\* the loop "check for all cities" of dfs, from city k on
DfsLoop(n, g, node, k, st) ==
  IF k >= n THEN st
  ELSE IF g[node][k] = CONNECTED /\ st.visited[k] = UNVISITED
    THEN LET r == dfs(n, g, k, st)
         IN  DfsLoop(n, g, node, k + 1,
                     [visited |-> r.visited,
                      trail |-> Append(r.trail, node)])
    ELSE DfsLoop(n, g, node, k + 1, st)

\* dfs(0, nr_cities, mst, visited, &p_head, &p_tail), line 239
Walk ==
  /\ pc = "prim"
  /\ i >= nr_cities
  /\ p_list' = dfs(nr_cities, mst, 0,
                   [visited |-> [c \in Cities(nr_cities) |-> UNVISITED],
                    trail |-> << >>]).trail
  /\ pc' = "shortcut"
  /\ UNCHANGED << nr_cities, cities, i, nr_perm, p, d, largestMobile,
                  largestMobileIndex, optimalTour, evaluated, v_list, mst,
                  kept, heuristicTour >>

\* the body of the loop over the trail with the cost added for every entry
\* of the trail, kept or not
KeepMisplaced(c, st, v, last) ==
  LET t == IF st.visited[v] = UNVISITED \/ last
             THEN [visited |-> [st.visited EXCEPT ![v] = VISITED],
                   tour |-> [st.tour EXCEPT ![st.i] = v],
                   cost |-> st.cost,
                   i |-> st.i + 1]
             ELSE st
  IN  IF st.i > 0
        THEN [t EXCEPT !.cost = st.cost + c[st.tour[st.i - 1]][v]]
        ELSE t

\* the body of the loop "while (v != NULL)" for the trail entry v;
\* last: v->next == NULL; st = [visited, tour, cost, i]
Keep(c, st, v, last) ==
  IF st.visited[v] = UNVISITED \/ last
    THEN [visited |-> [st.visited EXCEPT ![v] = VISITED],
          tour |-> [st.tour EXCEPT ![st.i] = v],
          cost |-> IF st.i > 0
                     THEN st.cost + c[st.tour[st.i - 1]][v]
                     ELSE st.cost,
          i |-> st.i + 1]
    ELSE st

RECURSIVE KeepFrom(_, _, _, _)
\* the loop over the trail from its k-th entry on
KeepFrom(c, trail, k, st) ==
  IF k > Len(trail) THEN st
  ELSE KeepFrom(c, trail, k + 1, Keep(c, st, trail[k], k = Len(trail)))

\* lines 241-267: clear visited[], shortcut the trail into res.tour, return.
\* The cells of res.tour the loop did not write hold whatever malloc left.
Shortcut ==
  /\ pc = "shortcut"
  /\ LET st == KeepFrom(cities, p_list, 1,
                        [visited |-> [c \in Cities(nr_cities) |-> UNVISITED],
                         tour |-> heuristicTour.tour,
                         cost |-> heuristicTour.cost,
                         i |-> 0])
         unset == { k \in 0 .. nr_cities : st.tour[k] = Unset }
     IN  /\ kept' = st.i
         /\ \E g \in [unset -> Indeterminate(nr_cities)] :
              heuristicTour' =
                [cost |-> st.cost,
                 tour |-> [k \in 0 .. nr_cities |->
                             IF k \in unset THEN g[k] ELSE st.tour[k]]]
  /\ pc' = "done"
  /\ UNCHANGED << nr_cities, cities, i, nr_perm, p, d, largestMobile,
                  largestMobileIndex, optimalTour, evaluated, v_list, mst,
                  p_list >>

(***************************************************************************)
(* The state machine                                                       *)
(***************************************************************************)
\* the state of both programs once their initialisation loops have run,
\* for the input inp
InitOn(inputs) ==
  \E inp \in inputs :
    /\ nr_cities = inp.n
    /\ cities = inp.cities
    /\ pc = "optimal"
    /\ i = 0
    /\ nr_perm = NrPerm(inp.n)
    /\ p = [j \in Cities(inp.n) |-> j]
    /\ d = [j \in Cities(inp.n) |-> LEFT]
    /\ largestMobile = Unset
    /\ largestMobileIndex = Unset
    /\ optimalTour = [cost |-> INFINITE, tour |-> [k \in 0 .. inp.n |-> Unset]]
    /\ evaluated = << >>
    /\ v_list = << 0 >>
    /\ mst = [a \in Cities(inp.n) |-> [b \in Cities(inp.n) |-> UNVISITED]]
    /\ p_list = << >>
    /\ kept = 0
    /\ heuristicTour = [cost |-> INFINITE,
                        tour |-> [k \in 0 .. inp.n |-> Unset]]

Init == InitOn(SymmetricInputs(MaxN, MaxW) \cup LineInputs(MaxPts, MaxCoord))

InitEnum == InitOn(EnumInputs(MaxPermN))

InitSparse == InitOn(SparseInputs(SparseN, SparseW, MaxRoads))

Next == OptIter \/ OptReturn \/ PrimStep \/ Walk \/ Shortcut

Spec == Init /\ [][Next]_vars

SpecEnum == InitEnum /\ [][Next]_vars

SpecSparse == InitSparse /\ [][Next]_vars

(***************************************************************************)
(* Vocabulary of the properties                                            *)
(***************************************************************************)
Range(f) == { f[x] : x \in DOMAIN f }

Symmetric ==
  \A a, b \in Cities(nr_cities) : cities[a][b] = cities[b][a]

PositiveOffDiagonal ==
  \A a, b \in Cities(nr_cities) : a # b => cities[a][b] > 0

TriangleInequality ==
  \A a, b, c \in Cities(nr_cities) :
    cities[a][c] <= cities[a][b] + cities[b][c]

MetricInput == Symmetric /\ PositiveOffDiagonal /\ TriangleInequality

RECURSIVE Reach(_, _)
\* the vertices joined to those of S by the undirected edges E
Reach(E, S) ==
  LET T == S \cup { pr[2] : pr \in { e \in E : e[1] \in S } }
             \cup { pr[1] : pr \in { e \in E : e[2] \in S } }
  IN  IF T = S THEN S ELSE Reach(E, T)

ConnectedBy(n, E) == Reach(E, {0}) = Cities(n)

\* the input graph, ignoring zero-weight entries, is connected
PositiveConnected == ConnectedBy(nr_cities, Roads(nr_cities, cities))

RECURSIVE Weight(_, _)
\* the total weight of the set of edges E
Weight(c, E) ==
  IF E = {} THEN 0
  ELSE LET e == CHOOSE x \in E : TRUE
       IN  c[e[1]][e[2]] + Weight(c, E \ {e})

SpanningTrees(n, c) ==
  { T \in SUBSET Roads(n, c) : Cardinality(T) = n - 1 /\ ConnectedBy(n, T) }

\* the undirected edges recorded in mst
MstEdges ==
  { pr \in Pairs(nr_cities) :
      mst[pr[1]][pr[2]] = CONNECTED \/ mst[pr[2]][pr[1]] = CONNECTED }

MstSymmetric ==
  \A a, b \in Cities(nr_cities) : mst[a][b] = mst[b][a]

RECURSIVE PermsOf(_)
\* the sequences that list every element of S once
PermsOf(S) ==
  IF S = {} THEN { << >> }
  ELSE UNION { { << x >> \o q : q \in PermsOf(S \ {x}) } : x \in S }

\* the orderings of the cities with city 0 at position 0
CyclesFrom0(n) ==
  { [j \in Cities(n) |-> IF j = 0 THEN 0 ELSE q[j]] : q \in PermsOf(1 .. n - 1) }

\* the same cycle walked the other way: positions 1..n-1 reversed
Mirror(n, q) == [j \in Cities(n) |-> IF j = 0 THEN q[0] ELSE q[n - j]]

Min(S) == CHOOSE x \in S : \A y \in S : x <= y

\* the cost of the cheapest cycle through all cities
MinCycleCost(n, c) == Min({ TourCost(n, c, q) : q \in CyclesFrom0(n) })

OptimalReturned == pc \in {"prim", "shortcut", "done", "ub_prim"}

PrimFinished ==
  pc \in {"shortcut", "done"} \/ (pc = "prim" /\ i >= nr_cities)

\* a tour of n+1 entries, closed, its first n entries a permutation
WellFormed(n, t) ==
  /\ \A k \in 0 .. n : t[k] \in Cities(n)
  /\ t[0] = t[n]
  /\ { t[k] : k \in Cities(n) } = Cities(n)

\* sum of the distances between the entries t[0], ..., t[len-1]
PathCost(c, t, len) ==
  SumTo([k \in 0 .. len - 2 |-> c[t[k]][t[k + 1]]], len - 1)

(***************************************************************************)
(* C1: the cost getOptimalTour returns is the minimum of the cyclic sums  *)
(* over all cycles that start at city 0 and visit every city once.        *)
(***************************************************************************)
C1_OptimalCostIsMinimum ==
  OptimalReturned => optimalTour.cost = MinCycleCost(nr_cities, cities)

(***************************************************************************)
(* C2: the loop evaluates exactly (n-1)!/2 orderings, none twice, no two  *)
(* of them mirror images, and every cycle from city 0 in one direction.   *)
(***************************************************************************)
EnumerationOfCycles ==
  /\ Len(evaluated) = factorial(nr_cities - 1) \div 2
  /\ \A a, b \in 1 .. Len(evaluated) :
       a # b => /\ evaluated[a] # evaluated[b]
                /\ evaluated[a] # Mirror(nr_cities, evaluated[b])
  /\ \A q \in CyclesFrom0(nr_cities) :
       q \in Range(evaluated) \/ Mirror(nr_cities, q) \in Range(evaluated)

C2_EachCycleEvaluatedOnce == OptimalReturned => EnumerationOfCycles

\* what does hold: the same from three cities on
EnumerationFromThreeCities ==
  (OptimalReturned /\ nr_cities >= 3) => EnumerationOfCycles

(***************************************************************************)
(* C3: on a connected input each engine returns a tour of n+1 written     *)
(* entries, first equal to last, the first n a permutation of 0..n-1.     *)
(***************************************************************************)
C3_ToursWellFormed ==
  PositiveConnected =>
    /\ OptimalReturned => WellFormed(nr_cities, optimalTour.tour)
    /\ pc = "done" => WellFormed(nr_cities, heuristicTour.tour)

(***************************************************************************)
(* C4: the cost of getOptimalTour never exceeds that of getHeuristicTour  *)
(* on the same matrix.                                                     *)
(***************************************************************************)
C4_OptimalNotAboveHeuristic ==
  pc = "done" => optimalTour.cost <= heuristicTour.cost

(***************************************************************************)
(* C5: on a symmetric, off-diagonal positive matrix with the triangle     *)
(* inequality the heuristic cost is at most twice the weight of the tree  *)
(* built and at most twice the cost of the cheapest cycle.                *)
(***************************************************************************)
C5_DoubleTreeBound ==
  (pc = "done" /\ MetricInput) =>
    /\ heuristicTour.cost <= 2 * Weight(cities, MstEdges)
    /\ heuristicTour.cost <= 2 * MinCycleCost(nr_cities, cities)

\* four cities on which the tour costs exactly twice the tree
C5_Witness ==
  /\ pc = "done"
  /\ MetricInput
  /\ nr_cities = 4
  /\ heuristicTour.cost = 2 * Weight(cities, MstEdges)

(***************************************************************************)
(* C6: on a connected input the Prim loop leaves in mst exactly n-1       *)
(* undirected edges, symmetric, connecting all n vertices.                *)
(***************************************************************************)
C6_PrimBuildsSpanningTree ==
  PositiveConnected =>
    /\ pc # "ub_prim"
    /\ PrimFinished =>
         /\ Cardinality(MstEdges) = nr_cities - 1
         /\ \A a \in Cities(nr_cities) : mst[a][a] = UNCONNECTED
         /\ MstSymmetric
         /\ ConnectedBy(nr_cities, MstEdges)

\* a connected input of four cities that lacks some road
C6_Witness ==
  /\ PrimFinished
  /\ PositiveConnected
  /\ nr_cities = 4
  /\ ~PositiveOffDiagonal

(***************************************************************************)
(* C7: on a symmetric connected input the tree of the Prim loop is a      *)
(* spanning tree of the positive-weight graph and no spanning tree of     *)
(* that graph weighs less.                                                 *)
(***************************************************************************)
C7_PrimTreeIsMinimum ==
  (PrimFinished /\ Symmetric /\ PositiveConnected) =>
    /\ MstEdges \in SpanningTrees(nr_cities, cities)
    /\ \A T \in SpanningTrees(nr_cities, cities) :
         Weight(cities, MstEdges) <= Weight(cities, T)

\* the graph has a spanning tree heavier than the one built
C7_Witness ==
  /\ PrimFinished
  /\ Symmetric
  /\ PositiveConnected
  /\ nr_cities >= 3
  /\ \E T \in SpanningTrees(nr_cities, cities) :
       Weight(cities, T) > Weight(cities, MstEdges)

(***************************************************************************)
(* C8: each engine reports the sum of the distances between consecutive   *)
(* entries of the tour it returns, closing edge included (0 for a single  *)
(* kept city).  Stated for the tours whose entries are city indices.      *)
(***************************************************************************)
C8_CostIsSumAlongTour ==
  /\ (OptimalReturned /\ Range(optimalTour.tour) \subseteq Cities(nr_cities))
       => optimalTour.cost = PathCost(cities, optimalTour.tour, nr_cities + 1)
  /\ pc = "done"
       => heuristicTour.cost = PathCost(cities, heuristicTour.tour, kept)

(***************************************************************************)
(* C9: once a best tour is stored, a pass of the loop either leaves it or *)
(* replaces it by a tour of strictly lower cost.                           *)
(***************************************************************************)
C9_BestOnlyImproves ==
  [][(pc = "optimal" /\ i > 0 /\ i' = i + 1) =>
       \/ optimalTour' = optimalTour
       \/ optimalTour'.cost < optimalTour.cost]_vars

(***************************************************************************)
(* C10: every pass of the loop finds a mobile integer, so the index it    *)
(* swaps at was assigned in that pass; the swap stays within positions    *)
(* 1..n-1, city 0 stays at position 0 and p stays a permutation.          *)
(***************************************************************************)
C10_MobileFoundInEveryPass ==
  /\ pc # "ub_optimal"
  /\ p[0] = 0
  /\ Range(p) = Cities(nr_cities)
  /\ Len(evaluated) > 0 =>
       /\ largestMobile > 0
       /\ largestMobileIndex \in 1 .. nr_cities - 1
       /\ \E k \in 1 .. nr_cities - 1 :
            /\ p[k] = largestMobile
            /\ k = largestMobileIndex + d[k]

\* the loop over five or more cities has made its last pass
C10_Witness ==
  /\ pc = "prim"
  /\ nr_cities >= 5
  /\ Len(evaluated) = nr_perm
  /\ largestMobile > 0

====
